---- MODULE Spec2Model ----
(***************************************************************************)
(* Model of the ME1MCP session runner: SessionRunner (main.py) and the     *)
(* task base (helpers/task.py).                                            *)
(*                                                                         *)
(* Text the code inspects character by character (directory entries, file  *)
(* names, input tokens, entered lines) is a sequence of one-character      *)
(* strings.  Text the code only builds and prints (log lines, exception    *)
(* messages) is a TLA+ string built with \o.                               *)
(***************************************************************************)
EXTENDS Integers, Sequences, FiniteSets, TLC

VARIABLES
    layout,     \* the directory tree under the root (os.listdir / glob results)
    inputs,     \* SessionRunner.inputs, the class-level stored selection
    last,       \* the SessionRunner call that completed and has not yet returned
    us,         \* the user_select call in progress (its prompt loop)
    tasklist,   \* a task collection's class-level registered task list
    tlast,      \* the TaskBase call that completed and has not yet returned
    ii,         \* the intInput call in progress (its prompt loop)
    modules,    \* sys.modules: the task modules this process has loaded
    runs        \* per session, how its latest completed run went (a record
                \* kept to compare a run with the run before it)

vars == <<layout, inputs, last, us, tasklist, tlast, ii, modules, runs>>

(***************************************************************************)
(* Bounds of the model.                                                    *)
(***************************************************************************)
MaxTokens == 3      \* longest token list handed to validate_input
MaxLines == 3       \* most lines entered at one prompt loop
MaxTasks == 3       \* most tasks registered on one collection

(***************************************************************************)
(* Characters and strings.                                                 *)
(***************************************************************************)
\* The characters of the model in ASCII order (Python compares code points).
AsciiOrder ==
    << " ", "+", "-", ".", "0", "1", "2", "3", "4", "5", "6", "7", "8", "9",
       "_", "a", "b", "c", "d", "e", "f", "g", "h", "i", "j", "k", "l", "m",
       "n", "o", "p", "q", "r", "s", "t", "u", "v", "w", "x", "y", "z" >>

Ord(c) == CHOOSE i \in 1..Len(AsciiOrder) : AsciiOrder[i] = c

Digits == <<"0", "1", "2", "3", "4", "5", "6", "7", "8", "9">>

IsDigitChar(c) == \E i \in 1..Len(Digits) : Digits[i] = c

DigitVal(c) == (CHOOSE i \in 1..Len(Digits) : Digits[i] = c) - 1

\* str.isdigit(): non-empty and every character a digit.
IsDigit(s) == Len(s) > 0 /\ \A i \in 1..Len(s) : IsDigitChar(s[i])

\* int(s) for a digit string s: positional decimal value.
RECURSIVE DigitsToInt(_)
DigitsToInt(s) ==
    IF s = <<>> THEN 0
    ELSE 10 * DigitsToInt(SubSeq(s, 1, Len(s) - 1)) + DigitVal(s[Len(s)])

\* str(n) for a natural number n.
RECURSIVE IntToStr(_)
IntToStr(n) ==
    IF n < 10 THEN Digits[n + 1]
    ELSE IntToStr(n \div 10) \o Digits[(n % 10) + 1]

\* The printed form of a character sequence.
RECURSIVE ToStr(_)
ToStr(s) == IF s = <<>> THEN "" ELSE Head(s) \o ToStr(Tail(s))

\* str.startswith(p)
StartsWith(s, p) == Len(p) <= Len(s) /\ SubSeq(s, 1, Len(p)) = p

\* str.endswith(p)
EndsWith(s, p) ==
    Len(p) <= Len(s) /\ SubSeq(s, Len(s) - Len(p) + 1, Len(s)) = p

\* a < b for Python strings: lexicographic by code point.
RECURSIVE StrLess(_, _)
StrLess(a, b) ==
    IF b = <<>> THEN FALSE
    ELSE IF a = <<>> THEN TRUE
    ELSE IF Head(a) # Head(b) THEN Ord(Head(a)) < Ord(Head(b))
    ELSE StrLess(Tail(a), Tail(b))

\* Insertion of x into an ascending list, after its equals (stable).
RECURSIVE InsertSorted(_, _)
InsertSorted(x, seq) ==
    IF seq = <<>> THEN <<x>>
    ELSE IF StrLess(x, Head(seq)) THEN <<x>> \o seq
    ELSE <<Head(seq)>> \o InsertSorted(x, Tail(seq))

\* sorted(seq) for a list of strings.
RECURSIVE Sorted(_)
Sorted(seq) ==
    IF seq = <<>> THEN <<>>
    ELSE InsertSorted(seq[Len(seq)], Sorted(SubSeq(seq, 1, Len(seq) - 1)))

\* x in seq
InList(x, seq) == \E i \in 1..Len(seq) : seq[i] = x

(***************************************************************************)
(* Names used by the model.                                                *)
(***************************************************************************)
N_empty == <<>>
N_all == <<"a", "l", "l">>
N_0 == <<"0">>
N_2 == <<"2">>
N_02 == <<"0", "2">>
N_session == <<"s", "e", "s", "s", "i", "o", "n">>
N_consolidation ==
    <<"c", "o", "n", "s", "o", "l", "i", "d", "a", "t", "i", "o", "n">>
N_session1 == N_session \o <<"1">>
N_session2 == N_session \o <<"2">>
N_session9 == N_session \o <<"9">>
N_other == <<"o", "t", "h", "e", "r">>
N_main_py == <<"m", "a", "i", "n", ".", "p", "y">>
N_domain_py == <<"d", "o">> \o N_main_py
N_a_py == <<"a", ".", "p", "y">>
N_b_py == <<"b", ".", "p", "y">>
N_d_py == <<"d", ".", "p", "y">>
N_f_py == <<"f", ".", "p", "y">>
N_h_py == <<"_", "h", ".", "p", "y">>
N_notes == <<"n", "o", "t", "e", "s">>
N_dot_py == <<".", "p", "y">>

\* SessionRunner.session_prefix
session_prefix == <<N_session, N_consolidation>>

(***************************************************************************)
(* Results of calls.                                                       *)
(*                                                                         *)
(* What a call does is a list of events [k, s]:                            *)
(*   "print"   a line written to the console                               *)
(*   "input"   input(s) called: the prompt s written, a line awaited       *)
(*   "call"    the task function named s invoked                           *)
(*   "import"  importlib.import_module(s)                                  *)
(*   "new"     mod.Task(s) constructed                                     *)
(*   "session" task.run_session entered for session s                      *)
(* and how it ends is [out, raised, exc, msg]: the events, whether an      *)
(* exception left the call, its class and its message.                     *)
(***************************************************************************)
Ev(k, s) == [k |-> k, s |-> s]

Emit(s) == Ev("print", s)

Ok(out) == [out |-> out, raised |-> FALSE, exc |-> "", msg |-> ""]

Raise(out, exc, msg) == [out |-> out, raised |-> TRUE, exc |-> exc, msg |-> msg]

\* b run after a returned normally.
Chain(a, b) == [b EXCEPT !.out = a.out \o @]

\* The element of a one-element set: The({F(x) : x \in {e}}) is F(e) with e
\* evaluated once.
The(S) == CHOOSE x \in S : TRUE

\* What a call hands back: None, or a string.
None == [isNone |-> TRUE, val |-> ""]

StrVal(s) == [isNone |-> FALSE, val |-> s]

(***************************************************************************)
(* helpers/task.py: TaskBase.                                              *)
(*                                                                         *)
(* A task is [name, raises, res]: the function's __name__, whether calling *)
(* it raises, and the mapping it returns as a list of <<key, value>> pairs *)
(* in key order (<<>> for None or an empty mapping).                       *)
(***************************************************************************)
Task(name, raises, res) == [name |-> name, raises |-> raises, res |-> res]

Hashes == "################"

\* sep.join(list)
RECURSIVE Join(_, _)
Join(list, sep) ==
    IF list = <<>> THEN ""
    ELSE IF Len(list) = 1 THEN list[1]
    ELSE list[1] \o sep \o Join(Tail(list), sep)

\* The var_list of log: f"{key} = {value}" for every item, in key order.
VarList(vs) == [i \in 1..Len(vs) |-> vs[i][1] \o " = " \o IntToStr(vs[i][2])]

\* The line log(msg, **vs) writes with output enabled.
LogLine(msg, vs) ==
    IF vs = <<>> THEN msg
    ELSE (msg \o ":") \o " " \o Join(VarList(vs), "; ")

\* The value log(msg, **vs) returns.
LogReturn(output, msg, vs) == None

\* The events of TaskBase.log(msg, **vs).
Log(output, msg, vs) ==
    IF ~output THEN <<>> ELSE <<Emit(LogLine(msg, vs))>>

\* A decorator that puts the function at the front of the list.
TaskToListFront(list, func) == <<func>> \o list

\* TaskBase.task_to_list(list)(func): the list afterwards.
TaskToList(list, func) == Append(list, func)

\* TaskBase.task_to_list(list)(func): what the decorator returns.
SubtaskReturn(list, func) == func

\* The message of the exception a raising task raises.
ExcMsg(task) == task.name \o " failed"

\* One iteration of the for loop of runTasks.
RunOneTask(output, task) ==
    IF task.raises
    THEN Raise(<<Ev("call", task.name)>>, "Exception", ExcMsg(task))
    ELSE Ok(<<Ev("call", task.name)>>
            \o (IF task.res # <<>> THEN Log(output, task.name, task.res)
                ELSE <<>>))

\* The for loop of runTasks over tl: it ends at the first task that raises.
RECURSIVE RunTaskLoop(_, _)
RunTaskLoop(output, tl) ==
    IF tl = <<>> THEN Ok(<<>>)
    ELSE The({ IF one.raised THEN one
               ELSE The({ Chain(one, rest) :
                          rest \in {RunTaskLoop(output, Tail(tl))} }) :
               one \in {RunOneTask(output, Head(tl))} })

\* The banner runTasks logs before its loop.
StartBanner(name, output) ==
    Log(output, Hashes, <<>>)
    \o Log(output, "running Task " \o name \o "...", <<>>)
    \o Log(output, Hashes, <<>>)

\* What runTasks logs after its loop.
DoneBanner(output) == Log(output, "done", <<>>) \o Log(output, Hashes, <<>>)

\* TaskBase.runTasks() on an instance (name, output) whose class registered tl.
RunTasks(name, output, tl) ==
    The({ IF loop.raised THEN Chain(Ok(StartBanner(name, output)), loop)
          ELSE Ok(StartBanner(name, output) \o loop.out \o DoneBanner(output)) :
          loop \in {RunTaskLoop(output, tl)} })

(***************************************************************************)
(* helpers/task.py: runSession.                                            *)
(*                                                                         *)
(* A file of a session directory is                                        *)
(* [fname, isfile, importRaises, ctorRaises, tasks]: its base name,        *)
(* os.path.isfile, whether importing its module raises (a module-level     *)
(* `import e` of a sibling file, as session1/f.py), whether Task(name)     *)
(* raises (a Task class whose __init__ takes no name, as session1/a.py),   *)
(* and the tasks its Task class registered.                                *)
(***************************************************************************)
File(fname, isfile, importRaises, ctorRaises, tasks) ==
    [fname |-> fname, isfile |-> isfile, importRaises |-> importRaises,
     ctorRaises |-> ctorRaises, tasks |-> tasks]

CtorMsg == "__init__() takes 1 positional argument but 2 were given"

ImportMsg == "No module named 'e'"

\* glob.glob(join(dirname(file), dir, "*.py"))
RECURSIVE Glob(_)
Glob(files) ==
    IF files = <<>> THEN <<>>
    ELSE (IF EndsWith(Head(files).fname, N_dot_py) THEN <<Head(files)>> ELSE <<>>)
         \o Glob(Tail(files))

\* modname: f"{dir}.{fname[:-3]}" if dir else fname[:-3]
ModName(dir, fname) ==
    IF dir # <<>>
    THEN ToStr(dir) \o "." \o ToStr(SubSeq(fname, 1, Len(fname) - 3))
    ELSE ToStr(SubSeq(fname, 1, Len(fname) - 3))

\* sys.modules, as far as task files go: the modules loaded so far, each
\* with the class-level tasklist of its Task class.
Module(name, tl) == [name |-> name, tl |-> tl]

IsLoaded(mods, modname) == \E m \in mods : m.name = modname

TasklistOf(mods, modname) == (CHOOSE m \in mods : m.name = modname).tl

SetTasklist(mods, modname, tl) ==
    {m \in mods : m.name # modname} \cup {Module(modname, tl)}

\* How a step of runSession ends, and sys.modules after it.
Done(res, mods) == [res |-> res, mods |-> mods]

\* The class body of a task file, executed when the module is first loaded:
\* the decorators register the functions in definition order.
RECURSIVE ClassBody(_, _)
ClassBody(list, funcs) ==
    IF funcs = <<>> THEN list
    ELSE ClassBody(TaskToList(list, Head(funcs)), Tail(funcs))

\* A runTasks that consumes the list it iterates.
TasklistDrained(tl) == <<>>

\* self.tasklist after runTasks: the for loop only reads it.
TasklistAfterRun(tl) == tl

\* mod.Task(mod.__name__).runTasks(): a new instance, then the tasks of the
\* class-level list.
RunModule(modname, f, mods) ==
    IF f.ctorRaises THEN Done(Raise(<<>>, "TypeError", CtorMsg), mods)
    ELSE The({ Done(Chain(Ok(<<Ev("new", modname)>>),
                          RunTasks(modname, TRUE, tl)),
                    SetTasklist(mods, modname, TasklistAfterRun(tl))) :
               tl \in {TasklistOf(mods, modname)} })

\* except Exception as e: print(e)
Except(r) == IF r.raised THEN Ok(r.out \o <<Emit(r.msg)>>) ELSE r

\* The try/except around one file's task collection, and the print("\n").
RunFileGuarded(modname, f, mods) ==
    The({ Done(Chain(Except(r.res), Ok(<<Emit("\n")>>)), r.mods) :
          r \in {RunModule(modname, f, mods)} })

\* Whether the for loop of runSession passes over a globbed file.
Skipped(f) ==
    \/ ~f.isfile
    \/ EndsWith(f.fname, N_main_py)
    \/ StartsWith(f.fname, <<"_">>)

\* importlib.import_module(modname), which stands before the try: a module
\* already in sys.modules is returned as it is, a new one is executed and
\* kept, and one whose execution raises is not kept.
ImportModule(modname, f, mods) ==
    IF f.importRaises
    THEN Done(Raise(<<Ev("import", modname)>>, "ModuleNotFoundError", ImportMsg),
              mods)
    ELSE IF IsLoaded(mods, modname) THEN Done(Ok(<<Ev("import", modname)>>), mods)
    ELSE Done(Ok(<<Ev("import", modname)>>),
              mods \cup {Module(modname, ClassBody(<<>>, f.tasks))})

\* The body of the for loop of runSession for one globbed file.
RunOneFile(dir, f, mods) ==
    IF Skipped(f) THEN Done(Ok(<<>>), mods)
    ELSE The({ The({ IF imp.res.raised THEN imp
                     ELSE The({ Done(Chain(imp.res, g.res), g.mods) :
                                g \in {RunFileGuarded(modname, f, imp.mods)} }) :
                     imp \in {ImportModule(modname, f, mods)} }) :
               modname \in {ModName(dir, f.fname)} })

\* The for loop of runSession: an exception that escapes one file ends it.
RECURSIVE RunFileLoop(_, _, _)
RunFileLoop(dir, files, mods) ==
    IF files = <<>> THEN Done(Ok(<<>>), mods)
    ELSE The({ IF one.res.raised THEN one
               ELSE The({ Done(Chain(one.res, rest.res), rest.mods) :
                          rest \in {RunFileLoop(dir, Tail(files), one.mods)} }) :
               one \in {RunOneFile(dir, Head(files), mods)} })

\* runSession(file, dir) where listing is the content of the directory and
\* mods is sys.modules when it is called.
runSession(listing, dir, mods) == RunFileLoop(dir, Glob(listing), mods)

(***************************************************************************)
(* The directory trees of the model.                                       *)
(*                                                                         *)
(* A layout is [main, root]: whether `file` is main.py's own __file__, and *)
(* os.listdir of its directory, in the order the system lists it, each     *)
(* entry [name, isdir, files] with the listing of the entry's directory.   *)
(***************************************************************************)
Entry(name, isdir, files) == [name |-> name, isdir |-> isdir, files |-> files]

T_sum == Task("task1", FALSE, <<<<"total", 6>>>>)
T_quiet == Task("task2", FALSE, <<>>)
T_pair == Task("task3", FALSE, <<<<"b", 10>>, <<"a", 205>>>>)
T_fail == Task("task4", TRUE, <<>>)

Files_session1 ==
    << File(N_main_py, TRUE, FALSE, FALSE, <<>>),
       File(N_a_py, TRUE, FALSE, TRUE, <<>>),
       File(N_notes, TRUE, FALSE, FALSE, <<>>),
       File(N_b_py, TRUE, FALSE, FALSE, <<T_sum, T_quiet>>),
       File(N_h_py, TRUE, FALSE, FALSE, <<T_sum>>) >>

Files_session2 ==
    << File(N_a_py, TRUE, FALSE, FALSE, <<T_sum, T_fail, T_pair>>),
       File(N_d_py, FALSE, FALSE, FALSE, <<>>),
       File(N_domain_py, TRUE, FALSE, FALSE, <<T_sum>>),
       File(N_b_py, TRUE, FALSE, FALSE, <<T_pair>>) >>

Files_consolidation ==
    << File(N_a_py, TRUE, FALSE, FALSE, <<T_quiet, T_pair>>),
       File(N_f_py, TRUE, TRUE, FALSE, <<T_sum>>),
       File(N_b_py, TRUE, FALSE, FALSE, <<T_sum>>) >>

LayoutA ==
    [main |-> TRUE,
     root |-> << Entry(N_session2, TRUE, Files_session2),
                 Entry(N_other, TRUE, Files_consolidation),
                 Entry(N_session9, FALSE, <<>>),
                 Entry(N_session1, TRUE, Files_session1) >>]

LayoutB ==
    [main |-> FALSE,
     root |-> << Entry(N_session2, TRUE, Files_session2),
                 Entry(N_session1, FALSE, <<>>),
                 Entry(N_main_py, FALSE, <<>>),
                 Entry(N_consolidation, TRUE, Files_consolidation) >>]

LayoutC ==
    [main |-> FALSE,
     root |-> << Entry(N_other, TRUE, Files_session1),
                 Entry(N_session9, FALSE, <<>>) >>]

Layouts == {LayoutA, LayoutB, LayoutC}

(***************************************************************************)
(* main.py: SessionRunner.                                                 *)
(***************************************************************************)
\* str.startswith(tuple): some prefix of the tuple starts the string.
StartsWithAny(s, prefixes) ==
    \E i \in 1..Len(prefixes) : StartsWith(s, prefixes[i])

\* The for loop of get_sessions over os.listdir(directory).
RECURSIVE SessionLoop(_)
SessionLoop(entries) ==
    IF entries = <<>> THEN <<>>
    ELSE (IF ~Head(entries).isdir THEN <<>>
          ELSE IF StartsWithAny(Head(entries).name, session_prefix)
          THEN <<Head(entries).name>>
          ELSE <<>>)
         \o SessionLoop(Tail(entries))

\* A get_sessions that returns the names in listing order, without the sort.
GetSessionsUnsorted(lay) == SessionLoop(lay.root)

\* SessionRunner.get_sessions(file)
get_sessions(lay) == Sorted(SessionLoop(lay.root))

\* A validate_session that accepts every name the root directory lists.
ValidateSessionListed(lay, session) ==
    IF \E i \in 1..Len(lay.root) : lay.root[i].name = session
    THEN Ok(<<>>)
    ELSE Raise(<<>>, "ValueError", "Session " \o ToStr(session) \o " not found.")

\* SessionRunner.validate_session(session, file)
validate_session(lay, session) ==
    IF ~InList(session, get_sessions(lay))
    THEN Raise(<<>>, "ValueError", "Session " \o ToStr(session) \o " not found.")
    ELSE Ok(<<>>)

\* The digit branch of the for loop of validate_input, n = int(i).
ValidateIndex(sessions, n) ==
    IF n < 1 \/ n > Len(sessions)
    THEN [raised |-> TRUE, add |-> <<>>,
          msg |-> "Invalid input " \o IntToStr(n) \o "."]
    ELSE [raised |-> FALSE, add |-> <<sessions[n]>>, msg |-> ""]

\* A name branch that passes over an unknown name instead of refusing it.
ValidateNameSkip(sessions, i) ==
    IF ~InList(i, sessions)
    THEN [raised |-> FALSE, add |-> <<>>, msg |-> ""]
    ELSE [raised |-> FALSE, add |-> <<i>>, msg |-> ""]

\* The name branch of the for loop of validate_input.
ValidateName(sessions, i) ==
    IF ~InList(i, sessions)
    THEN [raised |-> TRUE, add |-> <<>>,
          msg |-> "Invalid input " \o ToStr(i) \o "."]
    ELSE [raised |-> FALSE, add |-> <<i>>, msg |-> ""]

\* A loop body without the `if i == "": continue` line.
ValidateTokenNoSkip(sessions, i) ==
    IF IsDigit(i) THEN ValidateIndex(sessions, DigitsToInt(i))
    ELSE ValidateName(sessions, i)

\* One token of the for loop of validate_input: skipped, resolved or refused.
ValidateToken(sessions, i) ==
    IF i = <<>> THEN [raised |-> FALSE, add |-> <<>>, msg |-> ""]
    ELSE IF IsDigit(i) THEN ValidateIndex(sessions, DigitsToInt(i))
    ELSE ValidateName(sessions, i)

\* The for loop of validate_input: valid_inputs, or the first refusal.
RECURSIVE ValidateLoop(_, _, _)
ValidateLoop(sessions, tokens, valid_inputs) ==
    IF tokens = <<>>
    THEN [raised |-> FALSE, msg |-> "", valid |-> valid_inputs]
    ELSE The({ IF one.raised
               THEN [raised |-> TRUE, msg |-> one.msg, valid |-> <<>>]
               ELSE ValidateLoop(sessions, Tail(tokens), valid_inputs \o one.add) :
               one \in {ValidateToken(sessions, Head(tokens))} })

\* The `"all" in inputs` test of validate_input.
HasAll(tokens) == InList(N_all, tokens)

\* What validate_input does with the outcome of its loop.
StoreValid(loop, stored) ==
    IF loop.raised
    THEN [raised |-> TRUE, msg |-> loop.msg, inputs |-> stored]
    ELSE IF loop.valid = <<>>
    THEN [raised |-> TRUE, msg |-> "No valid inputs.", inputs |-> stored]
    ELSE [raised |-> FALSE, msg |-> "", inputs |-> loop.valid]

\* SessionRunner.validate_input(inputs, file) with cls.inputs = stored:
\* whether it raises, the message, and cls.inputs afterwards.
validate_input(lay, tokens, stored) ==
    IF HasAll(tokens)
    THEN [raised |-> FALSE, msg |-> "", inputs |-> <<N_all>>]
    ELSE The({ The({ StoreValid(loop, stored) :
                     loop \in {ValidateLoop(sessions, tokens, <<>>)} }) :
               sessions \in {get_sessions(lay)} })

\* The listing of the directory of a session of the layout (nothing globs
\* under a name that is no directory).
SessionFiles(lay, session) ==
    IF \E i \in 1..Len(lay.root) : lay.root[i].name = session
    THEN lay.root[CHOOSE i \in 1..Len(lay.root) : lay.root[i].name = session].files
    ELSE <<>>

\* What run_session prints before task.run_session when file is __file__.
SessionHeader(lay, session) ==
    IF lay.main
    THEN <<Emit("running " \o ToStr(session) \o "..."), Emit("~~~~~~~~~~~~~~~~~~~~")>>
    ELSE <<>>

\* What run_session prints after task.run_session when file is __file__.
SessionFooter(lay) ==
    IF lay.main THEN <<Emit("~~~~~~~~~~~~~~~~~~~~\n")>> ELSE <<>>

\* The body of run_session, after the decorator let the session through.
RunSessionBody(lay, session, mods) ==
    The({ The({ Done(IF r.raised THEN Chain(Ok(SessionHeader(lay, session)), r)
                     ELSE Ok(SessionHeader(lay, session) \o r.out
                             \o SessionFooter(lay)),
                     q.mods) :
                r \in { Chain(Ok(<<Ev("session", ToStr(session))>>), q.res) } }) :
          q \in { runSession(SessionFiles(lay, session), session, mods) } })

\* SessionRunner.run_session(session, file), validate_session_decorator
\* included.
run_session(lay, session, mods) ==
    The({ IF v.raised THEN Done(v, mods) ELSE RunSessionBody(lay, session, mods) :
          v \in {validate_session(lay, session)} })

\* for session in list: self.run_session(session, file)
RECURSIVE RunSessionLoop(_, _, _)
RunSessionLoop(lay, list, mods) ==
    IF list = <<>> THEN Done(Ok(<<>>), mods)
    ELSE The({ IF one.res.raised THEN one
               ELSE The({ Done(Chain(one.res, rest.res), rest.mods) :
                          rest \in {RunSessionLoop(lay, Tail(list), one.mods)} }) :
               one \in {run_session(lay, Head(list), mods)} })

\* SessionRunner.run_all_sessions(file)
run_all_sessions(lay, mods) == RunSessionLoop(lay, get_sessions(lay), mods)

\* The body of run_session_input, reading self.inputs = stored.
RunInputBody(lay, stored, mods) ==
    IF stored = <<N_all>> THEN run_all_sessions(lay, mods)
    ELSE RunSessionLoop(lay, stored, mods)

\* A run_session_input that iterates the selection stored before the call.
SelfInputsStale(v, stored) == stored

\* The selection the body of run_session_input reads as self.inputs when
\* validate_input returned v: what the decorator's call just stored on the
\* class, not what was stored before it.
SelfInputs(v, stored) == v.inputs

\* SessionRunner.run_session_input(inputs, file), validate_input_decorator
\* included: how it ends, and cls.inputs and sys.modules afterwards.
run_session_input(lay, tokens, stored, mods) ==
    The({ IF v.raised
          THEN [res |-> Raise(<<>>, "ValueError", v.msg), inputs |-> v.inputs,
                mods |-> mods]
          ELSE The({ [res |-> b.res, inputs |-> v.inputs, mods |-> b.mods] :
                     b \in {RunInputBody(lay, SelfInputs(v, stored), mods)} }) :
          v \in {validate_input(lay, tokens, stored)} })

\* str.split(" "): cur is the token being read.
RECURSIVE SplitAcc(_, _)
SplitAcc(line, cur) ==
    IF line = <<>> THEN <<cur>>
    ELSE IF Head(line) = " " THEN <<cur>> \o SplitAcc(Tail(line), <<>>)
    ELSE SplitAcc(Tail(line), Append(cur, Head(line)))

Split(line) == SplitAcc(line, <<>>)

\* The lines of the menu for the sessions from the i-th on.
RECURSIVE MenuLines(_, _)
MenuLines(sessions, i) ==
    IF i > Len(sessions) THEN <<>>
    ELSE <<Emit(IntToStr(i) \o ". " \o ToStr(sessions[i]))>>
         \o MenuLines(sessions, i + 1)

\* The menu user_select prints before its loop.
Menu(lay, debug) ==
    IF debug THEN <<>>
    ELSE <<Emit("Select a session to run:")>>
         \o MenuLines(get_sessions(lay), 1)
         \o <<Emit("all. Run all sessions")>>

SelectPrompt == Ev("input", "Enter session(s) to run: ")

\* An except clause of user_select that re-raises whatever the mode.
SelectExceptRaise(r, debug) ==
    IF r.exc # "ValueError" THEN [done |-> TRUE, res |-> r]
    ELSE [done |-> TRUE, res |-> Raise(r.out, "ValueError", "")]

\* The except clause of user_select for a ValueError out of r: re-raise in
\* debug mode, else the message and the next input().
SelectExcept(r, debug) ==
    IF r.exc # "ValueError" THEN [done |-> TRUE, res |-> r]
    ELSE IF debug
    THEN [done |-> TRUE, res |-> Raise(r.out, "ValueError", "")]
    ELSE [done |-> FALSE,
          res |-> Ok(r.out \o <<Emit("Invalid input. Please try again."),
                                 SelectPrompt>>)]

\* One iteration of the while loop of user_select on an entered line:
\* whether the loop ends, how, and cls.inputs and sys.modules afterwards.
SelectIteration(lay, line, stored, debug, mods) ==
    The({ IF ~r.res.raised
          THEN [done |-> TRUE, res |-> r.res, inputs |-> r.inputs, mods |-> r.mods]
          ELSE The({ [done |-> e.done, res |-> e.res, inputs |-> r.inputs,
                      mods |-> r.mods] :
                     e \in {SelectExcept(r.res, debug)} }) :
          r \in {run_session_input(lay, Split(line), stored, mods)} })

(***************************************************************************)
(* helpers/task.py: TaskBase.intInput.                                     *)
(***************************************************************************)
RECURSIVE LStrip(_)
LStrip(s) == IF s # <<>> /\ Head(s) = " " THEN LStrip(Tail(s)) ELSE s

RECURSIVE RStrip(_)
RStrip(s) ==
    IF s # <<>> /\ s[Len(s)] = " " THEN RStrip(SubSeq(s, 1, Len(s) - 1)) ELSE s

\* int(t) for a stripped line t: an optional sign, then digits.
ParseStripped(t) ==
    IF t = <<>> THEN [ok |-> FALSE, val |-> 0]
    ELSE IF Head(t) = "-"
    THEN (IF IsDigit(Tail(t)) THEN [ok |-> TRUE, val |-> 0 - DigitsToInt(Tail(t))]
          ELSE [ok |-> FALSE, val |-> 0])
    ELSE IF Head(t) = "+"
    THEN (IF IsDigit(Tail(t)) THEN [ok |-> TRUE, val |-> DigitsToInt(Tail(t))]
          ELSE [ok |-> FALSE, val |-> 0])
    ELSE IF IsDigit(t) THEN [ok |-> TRUE, val |-> DigitsToInt(t)]
    ELSE [ok |-> FALSE, val |-> 0]

\* int(line): surrounding blanks dropped (the lines of the model hold no
\* underscore).  ok = FALSE is ValueError.
ParseInt(line) == ParseStripped(RStrip(LStrip(line)))

IntPrompt(varname) == Ev("input", "Enter " \o varname \o ": ")

\* An except clause of intInput that gives up after the first bad line.
IntExceptGiveUp(varname) ==
    [done |-> TRUE, val |-> 0,
     res |-> Raise(<<>>, "ValueError", "Invalid input. Please enter an integer.")]

\* The except clause of intInput: the message, and the next input().
IntExcept(varname) ==
    [done |-> FALSE, val |-> 0,
     res |-> Ok(<<Emit("Invalid input. Please enter an integer."),
                  IntPrompt(varname)>>)]

\* One iteration of the while loop of intInput on an entered line.
IntIteration(varname, line) ==
    The({ IF p.ok THEN [done |-> TRUE, val |-> p.val, res |-> Ok(<<>>)]
          ELSE IntExcept(varname) :
          p \in {ParseInt(line)} })

(***************************************************************************)
(* The inputs of the model.                                                *)
(***************************************************************************)
\* The sequences over S of length at most n.
SeqsUpTo(S, n) == UNION {[1..k -> S] : k \in 0..n}

\* Tokens handed to validate_input.
Tokens == {N_empty, N_0, N_02, N_session1, N_all}

TokenLists == SeqsUpTo(Tokens, MaxTokens)

\* Names handed to run_session.
SessionNames ==
    {N_session1, N_session2, N_session9, N_other, N_consolidation, N_empty}

\* Lines entered at the prompt of user_select.
SelectLines ==
    { <<>>, <<"1">>, <<"3">>, N_all, N_session1,
      <<"0", "2", " ", " ", "1">>, <<"1", " ", "3">>,
      <<"3", " ", "a", "l", "l">> }

\* Lines entered at the prompt of intInput.
IntLines ==
    { <<>>, <<"1", "2">>, <<"-", "3">>, <<" ", "+", "0", "7", " ">>,
      <<"1", ".", "1">>, <<"a">>, <<"1", " ", "2">> }

VarNames == {"n", "upper bound"}

\* Functions a task collection decorates.
TaskFuncs == {T_sum, T_quiet, T_fail, T_pair}

LogMsgs == {"test", "task1"}

LogVars ==
    { <<>>, <<<<"test", 1>>>>, <<<<"test", 1>>, <<"test2", 2>>>>,
      <<<<"total", 6>>>>, <<<<"b", 10>>, <<"a", 205>>>> }

(***************************************************************************)
(* The state machine of SessionRunner.                                     *)
(***************************************************************************)
NoCall ==
    [op |-> "none", arg |-> <<>>, debug |-> FALSE, res |-> Ok(<<>>),
     before |-> <<>>]

Idle == [active |-> FALSE, debug |-> FALSE, lines |-> <<>>, out |-> <<>>]

NoTask == Task("", FALSE, <<>>)

NoTaskCall ==
    [op |-> "none", output |-> FALSE, msg |-> "", vs |-> <<>>,
     func |-> NoTask, retf |-> NoTask, tl |-> <<>>,
     res |-> Ok(<<>>), ret |-> None, lines |-> <<>>, val |-> 0]

IntIdle == [active |-> FALSE, varname |-> "", lines |-> <<>>, out |-> <<>>]

\* What runs holds for a session that has not completed a run.
NoRun == [out |-> <<>>, raised |-> FALSE, exc |-> "not run", msg |-> ""]

\* The runs that are recorded: run_session per name, and run_all_sessions
\* under "all".
RunKeys == SessionNames \cup {N_all}

Init ==
    /\ layout \in Layouts
    /\ inputs = <<>>
    /\ last = NoCall
    /\ us = Idle
    /\ tasklist = <<>>
    /\ tlast = NoTaskCall
    /\ ii = IntIdle
    /\ modules = {}
    /\ runs = [k \in RunKeys |-> NoRun]

taskVars == <<tasklist, tlast, ii>>

runnerVars == <<layout, inputs, last, us, modules, runs>>

\* No SessionRunner call is in progress or waiting to return.
AtRest == ~us.active /\ last = NoCall

\* SessionRunner.validate_input(tokens, file) called on the class.
ValidateInput ==
    /\ AtRest
    /\ \E tokens \in TokenLists :
       \E v \in {validate_input(layout, tokens, inputs)} :
          /\ inputs' = v.inputs
          /\ last' = [op |-> "validate_input", arg |-> tokens, debug |-> FALSE,
                      res |-> IF v.raised THEN Raise(<<>>, "ValueError", v.msg)
                              ELSE Ok(<<>>),
                      before |-> inputs]
    /\ UNCHANGED <<layout, us, modules, runs, taskVars>>

\* SessionRunner().run_session_input(tokens, file)
RunSessionInput ==
    /\ AtRest
    /\ \E tokens \in TokenLists :
       \E r \in {run_session_input(layout, tokens, inputs, modules)} :
          /\ inputs' = r.inputs
          /\ modules' = r.mods
          /\ last' = [op |-> "run_session_input", arg |-> tokens, debug |-> FALSE,
                      res |-> r.res, before |-> inputs]
    /\ UNCHANGED <<layout, us, runs, taskVars>>

\* SessionRunner().run_session(session, file)
RunSession ==
    /\ AtRest
    /\ \E session \in SessionNames :
       \E r \in {run_session(layout, session, modules)} :
          /\ modules' = r.mods
          /\ last' = [op |-> "run_session", arg |-> <<session>>, debug |-> FALSE,
                      res |-> r.res, before |-> inputs]
    /\ UNCHANGED <<layout, inputs, us, runs, taskVars>>

\* SessionRunner().run_all_sessions(file)
RunAllSessions ==
    /\ AtRest
    /\ \E r \in {run_all_sessions(layout, modules)} :
          /\ modules' = r.mods
          /\ last' = [op |-> "run_all_sessions", arg |-> <<>>, debug |-> FALSE,
                      res |-> r.res, before |-> inputs]
    /\ UNCHANGED <<layout, inputs, us, runs, taskVars>>

\* SessionRunner().user_select(file, debug) up to its first input() call.
UserSelect ==
    /\ AtRest
    /\ \E debug \in BOOLEAN :
          us' = [active |-> TRUE, debug |-> debug, lines |-> <<>>,
                 out |-> Menu(layout, debug) \o <<SelectPrompt>>]
    /\ UNCHANGED <<layout, inputs, last, modules, runs, taskVars>>

\* A line is entered at the prompt of user_select: one loop iteration.
EnterLine ==
    /\ us.active
    /\ Len(us.lines) < MaxLines
    /\ \E line \in SelectLines :
       \E r \in {SelectIteration(layout, line, inputs, us.debug, modules)} :
          /\ inputs' = r.inputs
          /\ modules' = r.mods
          /\ IF r.done
             THEN /\ us' = Idle
                  /\ last' = [op |-> "user_select", arg |-> Append(us.lines, line),
                              debug |-> us.debug,
                              res |-> Chain(Ok(us.out), r.res),
                              before |-> inputs]
             ELSE /\ us' = [us EXCEPT !.lines = Append(@, line),
                                      !.out = @ \o r.res.out]
                  /\ last' = last
    /\ UNCHANGED <<layout, runs, taskVars>>

\* The completed call returns to its caller, which keeps nothing of it.
Return ==
    /\ last # NoCall
    /\ last' = NoCall
    /\ UNCHANGED <<layout, inputs, us, modules, runs, taskVars>>

Next ==
    \/ ValidateInput
    \/ RunSessionInput
    \/ RunSession
    \/ RunAllSessions
    \/ UserSelect
    \/ EnterLine
    \/ Return

Spec == Init /\ [][Next]_vars

(***************************************************************************)
(* Sessions run again and again in one process: run_session and            *)
(* run_all_sessions, each completed run noted when it returns.             *)
(***************************************************************************)
\* Under which key a completed run is noted.
RunKey(call) == IF call.op = "run_all_sessions" THEN N_all ELSE call.arg[1]

\* The completed run returns to its caller; how it went is noted.
ReturnNoted ==
    /\ last # NoCall
    /\ last' = NoCall
    /\ runs' = [runs EXCEPT ![RunKey(last)] = last.res]
    /\ UNCHANGED <<layout, inputs, us, modules, taskVars>>

NextRepeat ==
    \/ RunSession
    \/ RunAllSessions
    \/ ReturnNoted

SpecRepeat == Init /\ [][NextRepeat]_vars

(***************************************************************************)
(* The state machine of a task collection (TaskBase).                      *)
(***************************************************************************)
\* No TaskBase call is in progress or waiting to return.
TaskAtRest == ~ii.active /\ tlast = NoTaskCall

\* @task_to_list(tasklist) applied to func while the class body runs.
Register ==
    /\ TaskAtRest
    /\ Len(tasklist) < MaxTasks
    /\ \E func \in TaskFuncs :
          /\ tasklist' = TaskToList(tasklist, func)
          /\ tlast' = [NoTaskCall EXCEPT !.op = "task_to_list", !.func = func,
                                         !.retf = SubtaskReturn(tasklist, func),
                                         !.tl = tasklist]
    /\ UNCHANGED <<ii, runnerVars>>

\* Task("test", output).runTasks()
RunTasksCall ==
    /\ TaskAtRest
    /\ \E output \in BOOLEAN :
          tlast' = [NoTaskCall EXCEPT !.op = "runTasks", !.output = output,
                                      !.tl = tasklist,
                                      !.res = RunTasks("test", output, tasklist)]
    /\ tasklist' = TasklistAfterRun(tasklist)
    /\ UNCHANGED <<ii, runnerVars>>

\* TaskBase("test", output).log(msg, **vs)
LogCall ==
    /\ TaskAtRest
    /\ \E output \in BOOLEAN, msg \in LogMsgs, vs \in LogVars :
          tlast' = [NoTaskCall EXCEPT !.op = "log", !.output = output,
                                      !.msg = msg, !.vs = vs,
                                      !.res = Ok(Log(output, msg, vs)),
                                      !.ret = LogReturn(output, msg, vs)]
    /\ UNCHANGED <<tasklist, ii, runnerVars>>

\* TaskBase.intInput(varname) up to its first input() call.
IntInput ==
    /\ TaskAtRest
    /\ \E varname \in VarNames :
          ii' = [active |-> TRUE, varname |-> varname, lines |-> <<>>,
                 out |-> <<IntPrompt(varname)>>]
    /\ UNCHANGED <<tasklist, tlast, runnerVars>>

\* A line is entered at the prompt of intInput: one loop iteration.
IntEnterLine ==
    /\ ii.active
    /\ Len(ii.lines) < MaxLines
    /\ \E line \in IntLines :
       \E r \in {IntIteration(ii.varname, line)} :
          IF r.done
          THEN /\ ii' = IntIdle
               /\ tlast' = [NoTaskCall EXCEPT !.op = "intInput",
                                              !.msg = ii.varname,
                                              !.lines = Append(ii.lines, line),
                                              !.res = Chain(Ok(ii.out), r.res),
                                              !.val = r.val]
          ELSE /\ ii' = [ii EXCEPT !.lines = Append(@, line),
                                   !.out = @ \o r.res.out]
               /\ tlast' = tlast
    /\ UNCHANGED <<tasklist, runnerVars>>

\* The completed call returns to its caller, which keeps nothing of it.
TaskReturn ==
    /\ tlast # NoTaskCall
    /\ tlast' = NoTaskCall
    /\ UNCHANGED <<tasklist, ii, runnerVars>>

NextTask ==
    \/ Register
    \/ RunTasksCall
    \/ LogCall
    \/ IntInput
    \/ IntEnterLine
    \/ TaskReturn

\* A task collection does not read the directory tree: one layout is enough.
InitTask == Init /\ layout = LayoutA

SpecTask == InitTask /\ [][NextTask]_vars

(***************************************************************************)
(* Vocabulary of the properties, stated from the directory tree itself.    *)
(***************************************************************************)
\* The discovered set: immediate subdirectories of the root whose name
\* starts with a configured prefix.
Discovered(lay) ==
    { lay.root[i].name :
        i \in { j \in 1..Len(lay.root) :
                  /\ lay.root[j].isdir
                  /\ \/ StartsWith(lay.root[j].name, N_session)
                     \/ StartsWith(lay.root[j].name, N_consolidation) } }

\* The discovered names in ascending order.
AscendingNames(lay) ==
    CHOOSE seq \in [1..Cardinality(Discovered(lay)) -> Discovered(lay)] :
        \A i, j \in DOMAIN seq : i < j => StrLess(seq[i], seq[j])

ContainsAll(tokens) == \E i \in 1..Len(tokens) : tokens[i] = N_all

\* A non-empty token that names no session: a digit string outside
\* 1..count, or another string that is no discovered name.
InvalidTok(lay, t) ==
    /\ t # <<>>
    /\ IF IsDigit(t)
       THEN DigitsToInt(t) \notin 1..Cardinality(Discovered(lay))
       ELSE t \notin Discovered(lay)

ValidTok(lay, t) == t # <<>> /\ ~InvalidTok(lay, t)

IsNonEmpty(t) == t # <<>>

NonEmpty(tokens) == SelectSeq(tokens, IsNonEmpty)

\* The session a valid token names.
Resolved(lay, t) ==
    IF IsDigit(t) THEN AscendingNames(lay)[DigitsToInt(t)] ELSE t

ResolvedList(lay, tokens) ==
    [i \in 1..Len(NonEmpty(tokens)) |-> Resolved(lay, NonEmpty(tokens)[i])]

\* A token list that validates: "all" somewhere, or no invalid token and at
\* least one token that is not empty.
Validates(lay, tokens) ==
    \/ ContainsAll(tokens)
    \/ /\ \A i \in 1..Len(tokens) : ~InvalidTok(lay, tokens[i])
       /\ NonEmpty(tokens) # <<>>

\* The sessions a validating token list selects, in running order.
Batch(lay, tokens) ==
    IF ContainsAll(tokens) THEN AscendingNames(lay) ELSE ResolvedList(lay, tokens)

NamesOf(seq) == [i \in 1..Len(seq) |-> ToStr(seq[i])]

IsSessionEv(e) == e.k = "session"

IsImportEv(e) == e.k = "import"

IsCallEv(e) == e.k = "call"

IsPromptEv(e) == e.k = "input"

\* The texts of the events of one kind, in order.
Texts(evs) == [i \in 1..Len(evs) |-> evs[i].s]

SessionsRun(out) == Texts(SelectSeq(out, IsSessionEv))

Imports(out) == Texts(SelectSeq(out, IsImportEv))

Calls(out) == Texts(SelectSeq(out, IsCallEv))

Prompts(out) == Len(SelectSeq(out, IsPromptEv))

IsValidation(op) == op = "validate_input" \/ op = "run_session_input"

\* The call ended with the ValueError of a failed validation.
Refused(res) == res.raised /\ res.exc = "ValueError"

(***************************************************************************)
(* Vocabulary of the properties about the task files of a session.         *)
(***************************************************************************)
\* The content of the root entry of a given name.
DirOf(lay, name) ==
    lay.root[CHOOSE i \in 1..Len(lay.root) : lay.root[i].name = name].files

\* A task file of a session: a regular *.py file that is neither main.py
\* nor underscore-prefixed.
IsTaskFile(f) ==
    /\ f.isfile
    /\ EndsWith(f.fname, N_dot_py)
    /\ ~EndsWith(f.fname, N_main_py)
    /\ Head(f.fname) # "_"

TaskFiles(lay, name) == SelectSeq(DirOf(lay, name), IsTaskFile)

\* A task file whose task collection fails: at construction or in a task.
Fails(f) == f.ctorRaises \/ \E i \in 1..Len(f.tasks) : f.tasks[i].raises

\* What the exception of a failing task file says.
FailureText(f) ==
    IF f.ctorRaises THEN CtorMsg
    ELSE f.tasks[CHOOSE i \in 1..Len(f.tasks) :
                    /\ f.tasks[i].raises
                    /\ \A j \in 1..(i - 1) : ~f.tasks[j].raises].name \o " failed"

\* The module names of the task files of the sessions of a batch, in order.
RECURSIVE ModulesOf(_, _)
ModulesOf(lay, batch) ==
    IF batch = <<>> THEN <<>>
    ELSE [i \in 1..Len(TaskFiles(lay, Head(batch))) |->
             ModName(Head(batch), TaskFiles(lay, Head(batch))[i].fname)]
         \o ModulesOf(lay, Tail(batch))

\* The failure messages of the failing task files of a batch, in order.
RECURSIVE FailuresOf(_, _)
FailuresOf(lay, batch) ==
    IF batch = <<>> THEN <<>>
    ELSE [i \in 1..Len(SelectSeq(TaskFiles(lay, Head(batch)), Fails)) |->
             FailureText(SelectSeq(TaskFiles(lay, Head(batch)), Fails)[i])]
         \o FailuresOf(lay, Tail(batch))

IsFailurePrint(e) ==
    /\ e.k = "print"
    /\ \/ e.s = CtorMsg
       \/ \E t \in TaskFuncs : e.s = t.name \o " failed"

FailurePrints(out) == Texts(SelectSeq(out, IsFailurePrint))

\* The sessions a call of the runner is to run when it passes validation.
BatchOf(lay, op, arg) ==
    IF op = "run_all_sessions" THEN AscendingNames(lay)
    ELSE IF op = "run_session" THEN <<arg[1]>>
    ELSE Batch(lay, arg)

IsRun(op) == op \in {"run_session", "run_all_sessions", "run_session_input"}

\* Every task file of the sessions of a batch can be imported.
Loads(lay, batch) ==
    \A i \in 1..Len(batch) :
       \A j \in 1..Len(TaskFiles(lay, batch[i])) :
          ~TaskFiles(lay, batch[i])[j].importRaises

IsPrefix(a, b) == Len(a) <= Len(b) /\ a = SubSeq(b, 1, Len(a))

(***************************************************************************)
(* C1. Validation is all-or-nothing: a token list without "all" that holds *)
(* an invalid token, wherever it stands, makes validate_input raise        *)
(* ValueError, leaves the stored selection as it was, and makes            *)
(* run_session_input run no session at all.                                *)
(***************************************************************************)
C1_AllOrNothing ==
    ( /\ IsValidation(last.op)
      /\ ~ContainsAll(last.arg)
      /\ \E i \in 1..Len(last.arg) : InvalidTok(layout, last.arg[i]) )
    => /\ Refused(last.res)
       /\ last.res.out = <<>>
       /\ inputs = last.before

\* run_session_input refused a list whose invalid token stands between two
\* valid ones.
C1_Witness ==
    /\ last.op = "run_session_input"
    /\ ~ContainsAll(last.arg)
    /\ Len(last.arg) >= 3
    /\ ValidTok(layout, last.arg[1])
    /\ InvalidTok(layout, last.arg[2])
    /\ ValidTok(layout, last.arg[3])
    /\ Refused(last.res)

C4_EmptyTokensSkipped ==
    (IsValidation(last.op) /\ ~ContainsAll(last.arg))
    => /\ NonEmpty(last.arg) = <<>>
          => Refused(last.res) /\ last.res.msg = "No valid inputs."
       /\ \E v \in {validate_input(layout, NonEmpty(last.arg), last.before)} :
             /\ last.res.raised = v.raised
             /\ last.res.msg = v.msg
             /\ inputs = v.inputs

\* A list with an empty token between two valid ones validated.
C4_Witness ==
    /\ IsValidation(last.op)
    /\ ~last.res.raised
    /\ ~ContainsAll(last.arg)
    /\ Len(last.arg) >= 3
    /\ last.arg[1] # <<>>
    /\ last.arg[2] = <<>>
    /\ last.arg[3] # <<>>

(***************************************************************************)
(* C5.  Failures are isolated per task file: an exception raised for one   *)
(* file is caught and printed, every remaining task file of the session    *)
(* and every remaining session of the batch is still processed, and a      *)
(* failure in one file never aborts the batch.                             *)
(***************************************************************************)
C5_FailureIsolation ==
    (IsRun(last.op) /\ ~Refused(last.res))
    => /\ ~last.res.raised
       /\ \E batch \in {BatchOf(layout, last.op, last.arg)} :
             /\ SessionsRun(last.res.out) = NamesOf(batch)
             /\ Imports(last.res.out) = ModulesOf(layout, batch)

\* The part of C5 the code keeps: when every task file of the batch can be
\* imported, an exception raised while a file's task collection is
\* constructed or run is printed, the call returns normally, and every task
\* file of every session of the batch is loaded.
CollectionFailuresIsolated ==
    (IsRun(last.op) /\ ~Refused(last.res))
    => \E batch \in {BatchOf(layout, last.op, last.arg)} :
          Loads(layout, batch)
          => /\ ~last.res.raised
             /\ SessionsRun(last.res.out) = NamesOf(batch)
             /\ Imports(last.res.out) = ModulesOf(layout, batch)
             /\ FailurePrints(last.res.out) = FailuresOf(layout, batch)

\* A failure was printed, and afterwards a file of the same session and a
\* file of the next session were loaded.
CollectionFailureSeen ==
    /\ IsRun(last.op)
    /\ ~last.res.raised
    /\ \E i, j, k, l \in 1..Len(last.res.out) :
          /\ i < j /\ j < k /\ k < l
          /\ IsFailurePrint(last.res.out[i])
          /\ IsImportEv(last.res.out[j])
          /\ IsSessionEv(last.res.out[k])
          /\ IsImportEv(last.res.out[l])

\* A file that cannot be imported ended a batch: the call raised, and a
\* task file and a session after it were never reached.
ImportFailureAborts ==
    /\ last.op = "run_all_sessions"
    /\ last.res.raised
    /\ last.res.exc = "ModuleNotFoundError"
    /\ Len(SessionsRun(last.res.out)) < Cardinality(Discovered(layout))
    /\ Len(Imports(last.res.out))
         < Len(ModulesOf(layout, AscendingNames(layout)))

IsRetryPrint(e) == e.k = "print" /\ e.s = "Invalid input. Please try again."

Retries(out) == Len(SelectSeq(out, IsRetryPrint))

LineValid(lay, line) == Validates(lay, Split(line))

C8_DebugRaises ==
    /\ last.op = "user_select"
    /\ last.debug
    /\ Refused(last.res)

(***************************************************************************)
(* Properties of TaskBase, checked under SpecTask.                         *)
(***************************************************************************)
TaskNames(tl) == [i \in 1..Len(tl) |-> tl[i].name]

IsPrintEv(e) == e.k = "print"

Printed(out) == Texts(SelectSeq(out, IsPrintEv))

\* task_to_list appends the function once and hands it back unchanged.
RegistersAtEnd ==
    tlast.op = "task_to_list"
    => /\ tasklist = tlast.tl \o <<tlast.func>>
       /\ tlast.retf = tlast.func

\* With output enabled the opening banner is the first thing runTasks
\* prints, before any task is invoked.
BannerFirst ==
    (tlast.op = "runTasks" /\ tlast.output)
    => /\ Len(tlast.res.out) >= 3
       /\ SubSeq(tlast.res.out, 1, 3)
            = <<Emit(Hashes), Emit("running Task test..."), Emit(Hashes)>>

\* With output enabled the closing banner is the last thing runTasks
\* prints, after every task.
BannerLast ==
    (tlast.op = "runTasks" /\ tlast.output)
    => /\ Len(tlast.res.out) >= 5
       /\ SubSeq(tlast.res.out, Len(tlast.res.out) - 1, Len(tlast.res.out))
            = <<Emit("done"), Emit(Hashes)>>
       /\ ~IsCallEv(tlast.res.out[Len(tlast.res.out)])

(***************************************************************************)
(* C6, as the specification states it.  Tasks execute in the order in      *)
(* which they were registered: task_to_list appends the function to the    *)
(* list exactly once and returns it unchanged, and runTasks invokes every  *)
(* task of the list exactly once, in list order, between the opening and   *)
(* the closing banner.                                                     *)
(***************************************************************************)
C6_EveryTaskRuns ==
    /\ RegistersAtEnd
    /\ BannerFirst
    /\ BannerLast
    /\ tlast.op = "runTasks"
       => Calls(tlast.res.out) = TaskNames(tlast.tl)

(***************************************************************************)
(* C6, as the code has it.  task_to_list appends the function to the list  *)
(* exactly once and returns it unchanged.  runTasks invokes the tasks in   *)
(* list order after the opening banner, each at most once: when no task    *)
(* raises, every task is invoked exactly once and the closing banner       *)
(* follows; when a task raises, runTasks ends with that exception, the     *)
(* tasks after it are not invoked and no closing banner is logged.         *)
(***************************************************************************)
C6_RegistrationOrder ==
    /\ RegistersAtEnd
    /\ BannerFirst
    /\ tlast.op = "runTasks"
       => IF \A i \in 1..Len(tlast.tl) : ~tlast.tl[i].raises
          THEN /\ ~tlast.res.raised
               /\ Calls(tlast.res.out) = TaskNames(tlast.tl)
               /\ BannerLast
          ELSE \E n \in 1..Len(tlast.tl) :
                  /\ tlast.tl[n].raises
                  /\ \A m \in 1..(n - 1) : ~tlast.tl[m].raises
                  /\ tlast.res.raised
                  /\ tlast.res.msg = tlast.tl[n].name \o " failed"
                  /\ Calls(tlast.res.out) = TaskNames(SubSeq(tlast.tl, 1, n))
                  /\ \A k \in 1..Len(tlast.res.out) :
                        tlast.res.out[k] # Emit("done")

\* Three functions registered in an order that is not the order of their
\* names were all run with output enabled.
C6_Witness ==
    /\ tlast.op = "runTasks"
    /\ tlast.output
    /\ ~tlast.res.raised
    /\ Len(tlast.tl) = 3
    /\ tlast.tl[1] = T_pair
    /\ tlast.tl[2] = T_sum
    /\ Calls(tlast.res.out) = <<"task3", "task1", "task2">>

\* A task raised with another task registered after it.
C6_RaisingTask ==
    /\ tlast.op = "runTasks"
    /\ tlast.res.raised
    /\ Len(Calls(tlast.res.out)) < Len(tlast.tl)

(***************************************************************************)
(* C9. intInput never raises on non-integer input: every line that does    *)
(* not parse as an integer prints "Invalid input. Please enter an          *)
(* integer." and prompts again, and the call returns the integer value of  *)
(* the first line that parses.                                             *)
(***************************************************************************)
\* The text of an integer: blanks, an optional sign, digits, blanks.
IsIntText(line) ==
    \E i, j \in 1..Len(line) :
       /\ i <= j
       /\ \A k \in 1..Len(line) : (k < i \/ k > j) => line[k] = " "
       /\ IF line[i] \in {"+", "-"}
          THEN IsDigit(SubSeq(line, i + 1, j))
          ELSE IsDigit(SubSeq(line, i, j))

IntOf(line) ==
    IF \E k \in 1..Len(line) : line[k] = "-"
    THEN 0 - DigitsToInt(SelectSeq(line, IsDigitChar))
    ELSE DigitsToInt(SelectSeq(line, IsDigitChar))

IsIntRetry(e) ==
    e.k = "print" /\ e.s = "Invalid input. Please enter an integer."

IntRetries(out) == Len(SelectSeq(out, IsIntRetry))

RECURSIVE PairsText(_)
PairsText(vs) ==
    IF Len(vs) = 1 THEN vs[1][1] \o " = " \o IntToStr(vs[1][2])
    ELSE vs[1][1] \o " = " \o IntToStr(vs[1][2]) \o "; " \o PairsText(Tail(vs))

ExpectedLine(msg, vs) ==
    IF vs = <<>> THEN msg ELSE msg \o ": " \o PairsText(vs)

\* What log puts on the output.
LogWrites ==
    tlast.op = "log"
    => IF tlast.output
       THEN tlast.res.out = <<Emit(ExpectedLine(tlast.msg, tlast.vs))>>
       ELSE tlast.res.out = <<>>

C10_LogReturnsLine ==
    /\ LogWrites
    /\ (tlast.op = "log" /\ tlast.output)
       => tlast.ret = StrVal(ExpectedLine(tlast.msg, tlast.vs))

\* log wrote the line of a call with two variables.
C10_LogCalled ==
    /\ tlast.op = "log"
    /\ tlast.output
    /\ Len(tlast.vs) = 2
    /\ tlast.res.out # <<>>

(***************************************************************************)
(* Properties of repeated runs, checked under SpecRepeat.                  *)
(***************************************************************************)
\* The task files of the tree that are loaded under a module name.
FilesNamed(lay, modname) ==
    UNION { { lay.root[i].files[j] :
                j \in { k \in 1..Len(lay.root[i].files) :
                          /\ IsTaskFile(lay.root[i].files[k])
                          /\ ModName(lay.root[i].name, lay.root[i].files[k].fname)
                               = modname } } :
            i \in 1..Len(lay.root) }

IsNewEv(e) == e.k = "new"

News(out) == Texts(SelectSeq(out, IsNewEv))

\* The "import" events of a run whose module loads and whose Task class can
\* be constructed with a name.
Constructed(lay, out) ==
    Texts(SelectSeq(out,
        LAMBDA e : /\ e.k = "import"
                   /\ \A f \in FilesNamed(lay, e.s) :
                         ~f.importRaises /\ ~f.ctorRaises))

\* The runs that are noted when they return.
IsNoted(op) == op = "run_session" \/ op = "run_all_sessions"

\* runTasks leaves the class-level list as it found it.
RunTasksKeepsList == tlast.op = "runTasks" => tasklist = tlast.tl

(***************************************************************************)
(* C11.  Running is repeatable: a session run again in the same process,   *)
(* on the same directory tree, goes exactly as its run before (the same    *)
(* task files, the same tasks in the same order, the same output, the same *)
(* outcome), and so does run_all_sessions; the class-level task list of    *)
(* every loaded task module stays the list its class body registered, in   *)
(* definition order; and every run constructs a collection instance of its *)
(* own for each task file it runs.                                         *)
(***************************************************************************)
C11_Repeatable ==
    /\ (IsNoted(last.op) /\ runs[RunKey(last)] # NoRun)
       => last.res = runs[RunKey(last)]
    /\ \A m \in modules : \A f \in FilesNamed(layout, m.name) : m.tl = f.tasks
    /\ IsRun(last.op) => News(last.res.out) = Constructed(layout, last.res.out)

\* A session with a failing task and three invoked tasks was run a second
\* time, its task modules already loaded by the first run.
C11_Witness ==
    /\ last.op = "run_session"
    /\ runs[last.arg[1]] # NoRun
    /\ \E m \in modules : m.name = Imports(last.res.out)[1]
    /\ Len(Calls(last.res.out)) >= 3
    /\ FailurePrints(last.res.out) # <<>>
    /\ Len(News(last.res.out)) >= 2

====
